---- MODULE Spec2Model ----
(***************************************************************************)
(* A model of deno-slotmap: the SlotMap generational arena and the         *)
(* SecondaryMap association map.                                           *)
(*                                                                         *)
(* An Entity is the pair <<generation, idx>> (TypeScript entity[0] and     *)
(* entity[1] are entity[1] and entity[2] here); idx is 0-based as in the   *)
(* source, so slot idx of an array is element idx + 1 of the sequence.     *)
(* A slot is the pair <<generation, component>>.                           *)
(***************************************************************************)
EXTENDS Integers, Sequences, FiniteSets, TLC

\* ------------------------------------------------------------- bounds
\* Longest SlotMap store the model grows.
MaxLen == 3
\* Highest generation a SlotMap slot is taken to.
MaxGen == 2
\* Highest index a SecondaryMap is written at.
MaxIdx == 2
\* Highest generation of an entity handed to a SecondaryMap.
MaxSecGen == 1
\* Longest store of the entities SlotMap of an ECS run.
MaxEcsLen == 2
\* Longest store of a SlotMap that is mutated during its traversals.
MaxIterLen == 2
\* Most pushes made on a List.
MaxListKeys == 3

\* Components stored in the maps.
Values == {"A", "B"}

\* --------------------------------------------------- JavaScript values
\* The null returned by get/remove, and stored by SecondaryMap.remove.
null == "null"
\* What reading an array past its end, or at a hole, gives.
undefined == <<-1, "undefined">>
\* A SecondaryMap slot holding null.
nullSlot == <<-2, null>>
\* No entity: the placeholder of a call record's unused entity fields.
NoEntity == <<-1, -1>>

\* `slot &&` / `if (slot)`: an array is truthy, null and undefined are not.
Truthy(slot) == slot # undefined /\ slot # nullSlot

\* this.store[i]: undefined when i is out of range (or a hole).
At(arr, i) == IF i \in 0..(Len(arr) - 1) THEN arr[i + 1] ELSE undefined

\* The entities a caller may pass to a SlotMap: every generation the model
\* reaches, every index in range and one past the end.
Entities == (0..MaxGen) \X (0..MaxLen)

\* The entities a caller may pass to a SecondaryMap.
SecEntities == (0..MaxSecGen) \X (0..MaxIdx)

\* The traversals of one SlotMap that are followed at the same time.
Traversals == {1, 2}

VARIABLES
    cls,      \* the program run: "SlotMap", "SecondaryMap", "ECS", a
              \* SlotMap of entities with a SecondaryMap keyed by them, or
              \* "List", the doubly-linked list kept in a SlotMap of nodes
    store,    \* SlotMap.store (of a List: the store of List.map)
    sstore,   \* SecondaryMap.store
    last,     \* the last call: its method and what it returned
    issued,   \* history: the entities SlotMap.insert has returned
    live,     \* history: <<entity, comp>> inserted and not removed since
    peak,     \* history: the largest number of occupied slots so far
    balance,  \* history: the inserts less the removes that returned a value
    held,     \* history: per value, its inserts less the removes returning it
    assoc,    \* history: <<entity, comp>> of the last SecondaryMap.insert at
              \* each index that no remove has returned since
    tagged,   \* history of an ECS run: the entities given to SecondaryMap.insert
    its,      \* the generators of SlotMap.iter() in progress: per traversal
              \* its position pc ("none": not created) and its local idx
    head,     \* List.head
    tail,     \* List.tail
    ref       \* history of a List: the double-ended sequence of <<key, value>>
              \* that its pushes, pops and removes describe

vars == <<cls, store, sstore, last, issued, live, peak, balance, held,
          assoc, tagged, its, head, tail, ref>>

\* The fields and the history of the List.
listVars == <<head, tail, ref>>

\* The history of the SlotMap.
arenaHist == <<issued, live, peak, balance, held>>

\* The history of the SecondaryMap.
secHist == <<assoc, tagged>>

\* A call record: op is the method, ret the component or null of get/remove,
\* key the entity of SlotMap.insert and comp the component it was given,
\* pairs what iter yielded, n the number of len, flag the boolean of
\* is_empty. The fields a call does not use keep these values.
NoCall == [op |-> "new", ret |-> null, key |-> NoEntity, comp |-> null,
           pairs |-> <<>>, n |-> 0, flag |-> FALSE]

\* --------------------------------------------------------------- SlotMap

\* get without the generation check.
SlotMap_get_any_generation(s, entity) ==
    LET slot == At(s, entity[2])
    IN  IF Truthy(slot) THEN slot[2] ELSE null

\* SlotMap.get
SlotMap_get(s, entity) ==
    LET slot == At(s, entity[2])
    IN  IF Truthy(slot) /\ entity[1] = slot[1] THEN slot[2] ELSE null

\* The loop of SlotMap.insert from idx on, then the push.
RECURSIVE SlotMap_insert_from(_, _, _)
SlotMap_insert_from(s, comp, idx) ==
    IF idx = Len(s)
    THEN [store |-> Append(s, <<0, comp>>), ret |-> <<0, idx>>]
    ELSE IF s[idx + 1][1] % 2 # 0
         THEN [store |-> [s EXCEPT ![idx + 1] = <<s[idx + 1][1] + 1, comp>>],
               ret |-> <<s[idx + 1][1] + 1, idx>>]
         ELSE SlotMap_insert_from(s, comp, idx + 1)

\* insert without the scan for a vacant slot.
SlotMap_insert_always_push(s, comp) ==
    [store |-> Append(s, <<0, comp>>), ret |-> <<0, Len(s)>>]

\* insert with the reused slot's generation taken back by one instead of
\* raised by one.
SlotMap_insert_decrement(s, comp) ==
    LET r == SlotMap_insert_from(s, comp, 0)
    IN  IF Len(r.store) = Len(s)
        THEN [store |-> [r.store EXCEPT ![r.ret[2] + 1] = <<@[1] - 2, comp>>],
              ret |-> <<r.ret[1] - 2, r.ret[2]>>]
        ELSE r

\* insert with `slot[0] += 1` left out.
SlotMap_insert_no_increment(s, comp) ==
    LET r == SlotMap_insert_from(s, comp, 0)
    IN  IF Len(r.store) = Len(s)
        THEN [store |-> [r.store EXCEPT ![r.ret[2] + 1] = <<@[1] - 1, comp>>],
              ret |-> <<r.ret[1] - 1, r.ret[2]>>]
        ELSE r

\* insert with the vacancy test `slot[0] % 2 !== 0` turned round: it takes
\* the first occupied slot.
SlotMap_insert_reuse_occupied(s, comp) ==
    LET occupied == {i \in 1..Len(s) : s[i][1] % 2 = 0}
    IN  IF occupied = {}
        THEN [store |-> Append(s, <<0, comp>>), ret |-> <<0, Len(s)>>]
        ELSE LET m == CHOOSE i \in occupied : \A j \in occupied : i <= j
             IN  [store |-> [s EXCEPT ![m] = <<s[m][1] + 1, comp>>],
                  ret |-> <<s[m][1] + 1, m - 1>>]

\* SlotMap.insert
SlotMap_insert(s, comp) == SlotMap_insert_from(s, comp, 0)

\* remove with `slot[0] += 1` left out.
SlotMap_remove_no_increment(s, entity) ==
    [store |-> s, ret |-> SlotMap_get(s, entity)]

\* SlotMap.remove
SlotMap_remove(s, entity) ==
    LET slot == At(s, entity[2])
    IN  IF Truthy(slot) /\ entity[1] = slot[1]
        THEN [store |-> [s EXCEPT ![entity[2] + 1] = <<slot[1] + 1, slot[2]>>],
              ret |-> slot[2]]
        ELSE [store |-> s, ret |-> null]

\* SlotMap.iter, run to completion: what the generator yields from idx on.
RECURSIVE SlotMap_iter_from(_, _)
SlotMap_iter_from(s, idx) ==
    IF idx >= Len(s)
    THEN <<>>
    ELSE IF s[idx + 1][1] % 2 = 0
         THEN <<  <<  <<s[idx + 1][1], idx>>, s[idx + 1][2]  >>  >>
              \o SlotMap_iter_from(s, idx + 1)
         ELSE SlotMap_iter_from(s, idx + 1)

\* A resumed generator that yields the slot it is at, occupied or not.
SlotMap_iter_resume_any_slot(s, idx) ==
    IF idx >= Len(s)
    THEN [pc |-> "done", idx |-> 0, pairs |-> <<>>]
    ELSE [pc |-> "yield", idx |-> idx,
          pairs |-> <<  <<  <<s[idx + 1][1], idx>>, s[idx + 1][2]  >>  >>]

\* The generator of SlotMap.iter run from loop iteration idx to its next
\* yield or to its end, over the store as it is now: the position it stops
\* at and the pair it yields, if any.
RECURSIVE SlotMap_iter_resume(_, _)
SlotMap_iter_resume(s, idx) ==
    IF idx >= Len(s)
    THEN [pc |-> "done", idx |-> 0, pairs |-> <<>>]
    ELSE IF s[idx + 1][1] % 2 = 0
         THEN [pc |-> "yield", idx |-> idx,
               pairs |-> <<  <<  <<s[idx + 1][1], idx>>, s[idx + 1][2]  >>  >>]
         ELSE SlotMap_iter_resume(s, idx + 1)

\* iter that yields every slot, vacant ones included.
SlotMap_iter_every_slot(s) ==
    [i \in 1..Len(s) |-> <<  <<s[i][1], i - 1>>, s[i][2]  >>]

\* SlotMap.iter
SlotMap_iter(s) == SlotMap_iter_from(s, 0)

\* `for (const _ of it) len += 1`: the count of what a traversal yields.
RECURSIVE CountYields(_)
CountYields(it) == IF it = <<>> THEN 0 ELSE 1 + CountYields(Tail(it))

\* len as the length of the store.
SlotMap_len_store_length(s) == Len(s)

\* SlotMap.len
SlotMap_len(s) == CountYields(SlotMap_iter(s))

\* SlotMap.is_empty: false at the first yield.
SlotMap_is_empty(s) == IF SlotMap_iter(s) # <<>> THEN FALSE ELSE TRUE

\* ------------------------------------------------------- SlotMap calls

CallInsert(comp) ==
    /\ cls = "SlotMap"
    /\ LET r == SlotMap_insert(store, comp)
       IN  /\ Len(r.store) <= MaxLen
           /\ r.ret[1] <= MaxGen
           /\ store' = r.store
           /\ last' = [NoCall EXCEPT !.op = "insert", !.key = r.ret, !.comp = comp]
           /\ issued' = issued \cup {r.ret}
           /\ live' = live \cup {<<r.ret, comp>>}
           /\ peak' = IF SlotMap_len(r.store) > peak
                      THEN SlotMap_len(r.store)
                      ELSE peak
           /\ balance' = balance + 1
           /\ held' = [held EXCEPT ![comp] = @ + 1]
    /\ UNCHANGED <<cls, its, listVars, sstore, secHist>>

CallGet(entity) ==
    /\ cls = "SlotMap"
    /\ last' = [NoCall EXCEPT !.op = "get", !.ret = SlotMap_get(store, entity)]
    /\ UNCHANGED <<cls, its, listVars, store, sstore, secHist, arenaHist>>

CallRemove(entity) ==
    /\ cls = "SlotMap"
    /\ LET r == SlotMap_remove(store, entity)
       IN  /\ \A i \in 1..Len(r.store) : r.store[i][1] <= MaxGen
           /\ store' = r.store
           /\ last' = [NoCall EXCEPT !.op = "remove", !.ret = r.ret]
           /\ live' = IF r.ret # null
                      THEN {p \in live : p[1] # entity}
                      ELSE live
           /\ peak' = IF SlotMap_len(r.store) > peak
                      THEN SlotMap_len(r.store)
                      ELSE peak
           /\ balance' = IF r.ret # null THEN balance - 1 ELSE balance
           /\ held' = IF r.ret # null
                      THEN [held EXCEPT ![r.ret] = @ - 1]
                      ELSE held
    /\ UNCHANGED <<cls, its, listVars, sstore, secHist, issued>>

CallIter ==
    /\ cls = "SlotMap"
    /\ last' = [NoCall EXCEPT !.op = "iter", !.pairs = SlotMap_iter(store)]
    /\ UNCHANGED <<cls, its, listVars, store, sstore, secHist, arenaHist>>

CallLen ==
    /\ cls = "SlotMap"
    /\ last' = [NoCall EXCEPT !.op = "len", !.n = SlotMap_len(store)]
    /\ UNCHANGED <<cls, its, listVars, store, sstore, secHist, arenaHist>>

CallIsEmpty ==
    /\ cls = "SlotMap"
    /\ last' = [NoCall EXCEPT !.op = "is_empty", !.flag = SlotMap_is_empty(store)]
    /\ UNCHANGED <<cls, its, listVars, store, sstore, secHist, arenaHist>>

SlotMapNext ==
    \/ \E comp \in Values : CallInsert(comp)
    \/ \E entity \in Entities : CallGet(entity)
    \/ \E entity \in Entities : CallRemove(entity)
    \/ CallIter
    \/ CallLen
    \/ CallIsEmpty

\* ---------------------------------------------------------- SecondaryMap

\* Array.prototype.fill(value, start, end): writes value at the indices from
\* start up to, not including, end that the array already has.
Array_fill(arr, value, start, end) ==
    [k \in 1..Len(arr) |-> IF start <= k - 1 /\ k - 1 < end THEN value ELSE arr[k]]

\* arr[i] = v: past the end the array grows to i + 1, and the indices between
\* are holes, which read as undefined.
Array_set(arr, i, v) ==
    IF i < Len(arr)
    THEN [arr EXCEPT ![i + 1] = v]
    ELSE [k \in 1..(i + 1) |->
            IF k <= Len(arr) THEN arr[k] ELSE IF k = i + 1 THEN v ELSE undefined]

\* insert that leaves a slot tagged with another generation as it is.
SecondaryMap_insert_keep_other(s, entity, comp) ==
    LET slot == At(s, entity[2])
    IN  IF Truthy(slot) /\ slot[1] # entity[1]
        THEN s
        ELSE Array_set(s, entity[2], <<entity[1], comp>>)

\* SecondaryMap.insert
SecondaryMap_insert(s, entity, comp) ==
    LET length == Len(s)
        filled == IF length >= entity[2]
                  THEN Array_fill(s, nullSlot, length, entity[2])
                  ELSE s
    IN  Array_set(filled, entity[2], <<entity[1], comp>>)

\* get that compares the index only.
SecondaryMap_get_any_generation(s, entity) ==
    LET slot == At(s, entity[2])
    IN  IF Truthy(slot) THEN slot[2] ELSE null

\* SecondaryMap.get
SecondaryMap_get(s, entity) ==
    LET slot == At(s, entity[2])
    IN  IF Truthy(slot) /\ entity[1] = slot[1] THEN slot[2] ELSE null

\* remove that compares the index only.
SecondaryMap_remove_any_generation(s, entity) ==
    LET slot == At(s, entity[2])
    IN  IF Truthy(slot)
        THEN [store |-> [s EXCEPT ![entity[2] + 1] = nullSlot], ret |-> slot[2]]
        ELSE [store |-> s, ret |-> null]

\* SecondaryMap.remove
SecondaryMap_remove(s, entity) ==
    LET slot == At(s, entity[2])
    IN  IF Truthy(slot) /\ entity[1] = slot[1]
        THEN [store |-> [s EXCEPT ![entity[2] + 1] = nullSlot], ret |-> slot[2]]
        ELSE [store |-> s, ret |-> null]

\* SecondaryMap.iter, run to completion: what the generator yields from idx on.
RECURSIVE SecondaryMap_iter_from(_, _)
SecondaryMap_iter_from(s, idx) ==
    IF idx >= Len(s)
    THEN <<>>
    ELSE IF Truthy(s[idx + 1])
         THEN <<  <<  <<s[idx + 1][1], idx>>, s[idx + 1][2]  >>  >>
              \o SecondaryMap_iter_from(s, idx + 1)
         ELSE SecondaryMap_iter_from(s, idx + 1)

\* iter that starts at index 1.
SecondaryMap_iter_from_one(s) == SecondaryMap_iter_from(s, 1)

\* SecondaryMap.iter
SecondaryMap_iter(s) == SecondaryMap_iter_from(s, 0)

\* SecondaryMap.len
SecondaryMap_len(s) == CountYields(SecondaryMap_iter(s))

\* SecondaryMap.is_empty: false at the first yield.
SecondaryMap_is_empty(s) == IF SecondaryMap_iter(s) # <<>> THEN FALSE ELSE TRUE

\* -------------------------------------------------- SecondaryMap calls

CallSecInsert(entity, comp) ==
    /\ cls = "SecondaryMap"
    /\ sstore' = SecondaryMap_insert(sstore, entity, comp)
    /\ last' = [NoCall EXCEPT !.op = "insert"]
    /\ assoc' = {p \in assoc : p[1][2] # entity[2]} \cup {<<entity, comp>>}
    /\ UNCHANGED <<cls, its, listVars, store, arenaHist, tagged>>

CallSecGet(entity) ==
    /\ cls = "SecondaryMap"
    /\ last' = [NoCall EXCEPT !.op = "get", !.ret = SecondaryMap_get(sstore, entity)]
    /\ UNCHANGED <<cls, its, listVars, store, sstore, arenaHist, secHist>>

CallSecRemove(entity) ==
    /\ cls = "SecondaryMap"
    /\ LET r == SecondaryMap_remove(sstore, entity)
       IN  /\ sstore' = r.store
           /\ last' = [NoCall EXCEPT !.op = "remove", !.ret = r.ret]
           /\ assoc' = IF r.ret # null
                       THEN {p \in assoc : p[1] # entity}
                       ELSE assoc
    /\ UNCHANGED <<cls, its, listVars, store, arenaHist, tagged>>

CallSecIter ==
    /\ cls = "SecondaryMap"
    /\ last' = [NoCall EXCEPT !.op = "iter", !.pairs = SecondaryMap_iter(sstore)]
    /\ UNCHANGED <<cls, its, listVars, store, sstore, arenaHist, secHist>>

CallSecLen ==
    /\ cls = "SecondaryMap"
    /\ last' = [NoCall EXCEPT !.op = "len", !.n = SecondaryMap_len(sstore)]
    /\ UNCHANGED <<cls, its, listVars, store, sstore, arenaHist, secHist>>

CallSecIsEmpty ==
    /\ cls = "SecondaryMap"
    /\ last' = [NoCall EXCEPT !.op = "is_empty",
                              !.flag = SecondaryMap_is_empty(sstore)]
    /\ UNCHANGED <<cls, its, listVars, store, sstore, arenaHist, secHist>>

SecondaryMapNext ==
    \/ \E entity \in SecEntities, comp \in Values : CallSecInsert(entity, comp)
    \/ \E entity \in SecEntities : CallSecGet(entity)
    \/ \E entity \in SecEntities : CallSecRemove(entity)
    \/ CallSecIter
    \/ CallSecLen
    \/ CallSecIsEmpty

\* ------------------------------------------------------------- the system

Init ==
    /\ cls \in {"SlotMap", "SecondaryMap"}
    /\ store = <<>>
    /\ sstore = <<>>
    /\ last = NoCall
    /\ issued = {}
    /\ live = {}
    /\ peak = 0
    /\ balance = 0
    /\ held = [v \in Values |-> 0]
    /\ assoc = {}
    /\ tagged = {}
    /\ its = [k \in Traversals |-> [pc |-> "none", idx |-> 0]]
    /\ head = NoEntity
    /\ tail = NoEntity
    /\ ref = <<>>

Next == SlotMapNext \/ SecondaryMapNext

Spec == Init /\ [][Next]_vars


\* ------------------------------------------------------------ history

\* The entities insert returned that no remove of them has succeeded on since.
LiveEntities == {p[1] : p \in live}

\* The entities insert returned that a remove has succeeded on.
RemovedEntities == issued \ LiveEntities

\* ------------------------------------------------------------- claims

\* C1. Round trip and key stability: an entity that insert returned for v
\* gets v, right after the insert and after every further call, until a
\* remove of that entity succeeds.
C1_RoundTripStable ==
    /\ \A p \in live : SlotMap_get(store, p[1]) = p[2]
    /\ (cls = "SlotMap" /\ last.op = "insert") =>
            /\ <<last.key, last.comp>> \in live
            /\ SlotMap_get(store, last.key) = last.comp

\* C1 witness: an entity is still live after another index was removed and
\* issued again, and a get has just returned a component.
C1_Witness ==
    /\ last.op = "get"
    /\ last.ret \in Values
    /\ \E p \in live : \E e1, e2 \in issued :
            e1[2] = e2[2] /\ e1 # e2 /\ e1[2] # p[1][2]

\* In every state: an entity that was removed is absent to get, and a
\* further remove of it is absent and leaves the store as it is.
C2_RemovedStayAbsent ==
    \A e \in RemovedEntities :
        /\ SlotMap_get(store, e) = null
        /\ SlotMap_remove(store, e) = [store |-> store, ret |-> null]

\* In every step: the first remove of a live entity returns its component
\* and leaves the entity absent.
C2_FirstRemoveReturns ==
    (cls = "SlotMap" /\ last'.op = "remove") =>
        \A p \in live :
            CallRemove(p[1]) =>
                /\ last'.ret = p[2]
                /\ SlotMap_get(store', p[1]) = null
                /\ SlotMap_remove(store', p[1]) = [store |-> store', ret |-> null]

\* C2. Tombstone: the first remove of an entity that insert returned gives
\* back the component inserted; from then on get of it is null, and a
\* second remove of it is null and leaves the store as it is.
C2_Tombstone == [](C2_RemovedStayAbsent) /\ [][C2_FirstRemoveReturns]_vars

\* C2 witness: a remove has just returned the component of an entity that
\* insert had returned, while another entity is live.
C2_Witness ==
    /\ cls = "SlotMap"
    /\ last.op = "remove"
    /\ last.ret \in Values
    /\ \E e \in RemovedEntities :
            /\ store[e[2] + 1] = <<e[1] + 1, last.ret>>
            /\ LiveEntities # {}

\* e1's index has been issued again, with a greater generation.
C3_Superseded(e1) == \E e2 \in issued : e2[2] = e1[2] /\ e2[1] > e1[1]

\* In every state: a superseded entity is absent to get and to remove.
C3_SupersededStayAbsent ==
    \A e1 \in issued :
        C3_Superseded(e1) =>
            /\ SlotMap_get(store, e1) = null
            /\ SlotMap_remove(store, e1).ret = null

\* In every step: an insert at an index issued before returns a generation
\* above every generation issued there.
C3_ReuseAdvances ==
    (cls = "SlotMap" /\ last'.op = "insert") =>
        \A comp \in Values :
            CallInsert(comp) =>
                \A e1 \in issued : e1[2] = last'.key[2] => last'.key[1] > e1[1]

\* C3. Non-resurrection: an insert that reuses the index of an entity issued
\* before returns a strictly greater generation, and the earlier entity is
\* absent to get and to remove in every state from then on.
C3_NonResurrection == [](C3_SupersededStayAbsent) /\ [][C3_ReuseAdvances]_vars

\* C3 witness: e1 was removed and its index issued again as e2, which is
\* live; a later remove has returned null.
C3_Witness ==
    /\ last.op = "remove"
    /\ last.ret = null
    /\ \E e1 \in RemovedEntities : \E e2 \in LiveEntities :
            /\ e1[2] = e2[2]
            /\ e2[1] = e1[1] + 2
            /\ store[e2[2] + 1][1] = e2[1]

\* In every step: the entity an insert returns was not returned before.
C4_Fresh ==
    (cls = "SlotMap" /\ last'.op = "insert") =>
        \A comp \in Values : CallInsert(comp) => last'.key \notin issued

\* C4. Unique keys: insert never returns an entity it has returned before,
\* removed in between or not.
C4_UniqueKeys == [][C4_Fresh]_vars

\* C4 witness: insert has just returned an entity at an index it had issued
\* before.
C4_Witness ==
    /\ cls = "SlotMap"
    /\ last.op = "insert"
    /\ \E e \in issued : e[2] = last.key[2] /\ e # last.key

\* What C5 says get returns.
C5_Expected(s, e) ==
    IF e[2] < Len(s) /\ s[e[2] + 1][1] = e[1] THEN s[e[2] + 1][2] ELSE null

\* In every state, for every entity: get is the component or null, as C5
\* says.
C5_GetValue == \A e \in Entities : SlotMap_get(store, e) = C5_Expected(store, e)

\* In every state: what the last get returned is what C5 says for some
\* entity.
C5_Returned ==
    (cls = "SlotMap" /\ last.op = "get") =>
        \E e \in Entities : last.ret = C5_Expected(store, e)

\* In every step: a get leaves the store as it is.
C5_GetCall == (cls = "SlotMap" /\ last'.op = "get") => store' = store

\* C5. get returns the slot's component exactly when the index is in bounds
\* and the slot's generation equals the entity's, null in every other case,
\* for every entity, and leaves the store as it is.
C5_Get == [](C5_GetValue /\ C5_Returned) /\ [][C5_GetCall]_vars

\* C5 witness: a get has returned null on a store that holds an occupied
\* slot, a stale entity and fewer slots than an entity may name.
C5_Witness ==
    /\ cls = "SlotMap"
    /\ last.op = "get"
    /\ last.ret = null
    /\ RemovedEntities # {}
    /\ LiveEntities # {}
    /\ Len(store) < MaxLen

\* In every step, C6 for the entity removed.
C6_RemoveStep ==
    (cls = "SlotMap" /\ last'.op = "remove") =>
        \A e \in Entities :
            CallRemove(e) =>
                IF last'.ret # null
                THEN /\ e[2] < Len(store)
                     /\ last'.ret = store[e[2] + 1][2]
                     /\ Len(store') = Len(store)
                     /\ store'[e[2] + 1][1] = store[e[2] + 1][1] + 1
                     /\ store'[e[2] + 1][1] % 2 = 1
                     /\ \A i \in 1..Len(store) : i # e[2] + 1 => store'[i] = store[i]
                     /\ SlotMap_len(store') = SlotMap_len(store) - 1
                ELSE store' = store

\* C6. remove, for every entity: a remove that returns a component returns
\* the slot's, raises that slot's generation by one, leaves the slot vacant
\* and one occupied slot fewer, and changes no other slot; a remove that
\* returns null leaves the store as it is.
C6_Remove == [][C6_RemoveStep]_vars

\* The indices of the vacant slots.
C7_Vacant(s) == {i \in 0..(Len(s) - 1) : s[i + 1][1] % 2 = 1}

\* The lowest index of a set.
C7_Lowest(S) == CHOOSE i \in S : \A j \in S : i <= j

\* In every step, C7 for the component inserted.
C7_InsertStep ==
    (cls = "SlotMap" /\ last'.op = "insert") =>
        \A comp \in Values :
            CallInsert(comp) =>
                IF C7_Vacant(store) # {}
                THEN LET m == C7_Lowest(C7_Vacant(store))
                     IN  /\ store' = [store EXCEPT ![m + 1] = <<store[m + 1][1] + 1, comp>>]
                         /\ last'.key = <<store[m + 1][1] + 1, m>>
                ELSE /\ store' = Append(store, <<0, comp>>)
                     /\ last'.key = <<0, Len(store)>>

\* C7. insert takes the vacant slot of lowest index when there is one: it
\* writes the component there, raises that slot's generation by one, returns
\* (new generation, that index) and changes neither the length nor another
\* slot. With no vacant slot it appends (0, component) and returns
\* (0, old length).
C7_InsertSelection == [][C7_InsertStep]_vars

\* C7 witness: after three inserts and the remove of (0, 1), insert has
\* returned (2, 1), with slots 0 and 2 as they were.
C7_Witness ==
    /\ cls = "SlotMap"
    /\ last.op = "insert"
    /\ last.key = <<2, 1>>
    /\ Len(store) = 3
    /\ store[1][1] = 0
    /\ store[2] = <<2, last.comp>>
    /\ store[3][1] = 0
    /\ issued = {<<0, 0>>, <<0, 1>>, <<0, 2>>, <<2, 1>>}

\* The indices of the pairs rise strictly.
C8_Ascending(pairs) ==
    \A j, k \in 1..Len(pairs) : j < k => pairs[j][1][2] < pairs[k][1][2]

\* C8. A full iter yields, in strictly ascending index order, exactly the
\* entities that insert returned and no remove has taken since, each once
\* and with the component get gives for it, and is a fresh traversal of the
\* store as it stands.
C8_IterYieldsLive ==
    (cls = "SlotMap" /\ last.op = "iter") =>
        /\ last.pairs = SlotMap_iter(store)
        /\ C8_Ascending(last.pairs)
        /\ {last.pairs[k][1] : k \in 1..Len(last.pairs)} = LiveEntities
        /\ \A k \in 1..Len(last.pairs) :
                last.pairs[k][2] = SlotMap_get(store, last.pairs[k][1])

\* C9. Count consistency, for both maps: len is the number of pairs a full
\* iter yields, and is_empty is true exactly when len is 0.
C9_CountConsistency ==
    /\ SlotMap_len(store) = Len(SlotMap_iter(store))
    /\ SlotMap_is_empty(store) <=> (SlotMap_len(store) = 0)
    /\ SecondaryMap_len(sstore) = Len(SecondaryMap_iter(sstore))
    /\ SecondaryMap_is_empty(sstore) <=> (SecondaryMap_len(sstore) = 0)
    /\ (cls = "SlotMap" /\ last.op = "len") => last.n = Len(SlotMap_iter(store))
    /\ (cls = "SlotMap" /\ last.op = "is_empty") =>
            (last.flag <=> Len(SlotMap_iter(store)) = 0)
    /\ (cls = "SecondaryMap" /\ last.op = "len") =>
            last.n = Len(SecondaryMap_iter(sstore))
    /\ (cls = "SecondaryMap" /\ last.op = "is_empty") =>
            (last.flag <=> Len(SecondaryMap_iter(sstore)) = 0)

\* C9 witness: len has returned a count that is neither 0 nor the length of
\* the store.
C9_Witness ==
    /\ cls = "SlotMap"
    /\ last.op = "len"
    /\ 0 < last.n
    /\ last.n < Len(store)

\* The larger of two numbers.
C10_Max(a, b) == IF a >= b THEN a ELSE b

\* In every step, C10 for the entity and component inserted.
C10_InsertStep ==
    (cls = "SecondaryMap" /\ last'.op = "insert") =>
        \A e \in SecEntities : \A comp \in Values :
            CallSecInsert(e, comp) =>
                /\ Len(sstore') = C10_Max(Len(sstore), e[2] + 1)
                /\ sstore'[e[2] + 1] = <<e[1], comp>>
                /\ \A k \in 1..Len(sstore') :
                        k # e[2] + 1 =>
                            IF k <= Len(sstore)
                            THEN sstore'[k] = sstore[k]
                            ELSE ~Truthy(sstore'[k])

\* C10. SecondaryMap.insert at any index: the store's length becomes the
\* larger of its old length and index + 1, the slot at the index holds
\* (generation, component) whatever it held, every slot created between is
\* empty, and every other slot is as it was.
C10_SecondaryInsert == [][C10_InsertStep]_vars

\* C10 witness: an insert at index 2 has grown the store past two slots that
\* were never written.
C10_Witness ==
    /\ cls = "SecondaryMap"
    /\ last.op = "insert"
    /\ Len(sstore) = 3
    /\ sstore[1] = undefined
    /\ sstore[2] = undefined
    /\ Truthy(sstore[3])

\* What a lookup of entity in the secondary store s is to give: the value of
\* the slot at the entity's index when that slot is inside the store, is
\* neither a hole nor emptied, and carries the entity's generation.
C11_Expected(s, entity) ==
    IF /\ entity[2] < Len(s)
       /\ s[entity[2] + 1] # undefined
       /\ s[entity[2] + 1] # nullSlot
       /\ s[entity[2] + 1][1] = entity[1]
    THEN s[entity[2] + 1][2]
    ELSE null

\* get and remove of every entity return the expected value; a remove that
\* returns a value empties that slot and no other, after which get and remove
\* of the same entity are absent; a remove that returns nothing leaves the
\* store as it is.
C11_Lookup ==
    cls = "SecondaryMap" =>
        \A entity \in SecEntities :
            LET r == SecondaryMap_remove(sstore, entity)
            IN  /\ SecondaryMap_get(sstore, entity) = C11_Expected(sstore, entity)
                /\ r.ret = C11_Expected(sstore, entity)
                /\ r.ret = null => r.store = sstore
                /\ r.ret # null =>
                     /\ Len(r.store) = Len(sstore)
                     /\ \A k \in 1..Len(sstore) :
                            r.store[k] = IF k = entity[2] + 1 THEN nullSlot
                                         ELSE sstore[k]
                     /\ SecondaryMap_get(r.store, entity) = null
                     /\ SecondaryMap_remove(r.store, entity).ret = null

\* A get call leaves the store as it is.
C11_GetCall ==
    (cls = "SecondaryMap" /\ last'.op = "get") => sstore' = sstore

\* A remove call returns and stores what remove computes for its entity.
C11_RemoveCall ==
    (cls = "SecondaryMap" /\ last'.op = "remove") =>
        \A entity \in SecEntities :
            CallSecRemove(entity) =>
                /\ last'.ret = C11_Expected(sstore, entity)
                /\ last'.ret = null => sstore' = sstore
                /\ last'.ret # null =>
                     /\ At(sstore', entity[2]) = nullSlot
                     /\ C11_Expected(sstore', entity) = null

\* C11. SecondaryMap.get and SecondaryMap.remove, for every (generation,
\* index): both return the stored value exactly when the slot at the index is
\* non-empty and its stored generation equals the entity's, and are absent
\* otherwise (index beyond the store, hole, emptied slot, other generation);
\* get never changes the store, a successful remove empties only that slot,
\* a failed remove changes nothing.
C11_GetRemove == [](C11_Lookup) /\ [][C11_GetCall /\ C11_RemoveCall]_vars

\* A remove has just returned a value, and the store holds an emptied slot, a
\* hole and a slot with a value: every case of the lookup is present.
C11_Witness ==
    /\ cls = "SecondaryMap"
    /\ last.op = "remove"
    /\ last.ret # null
    /\ \E i, j, k \in 1..Len(sstore) :
          /\ sstore[i] = nullSlot
          /\ sstore[j] = undefined
          /\ Truthy(sstore[k])

\* ------------------------------------------------------------------ ECS
\* The entity-component-system use of the two maps: `entities`, a SlotMap,
\* issues the entities, and `owners`, a SecondaryMap, is keyed by entities
\* that `entities` has issued, live or removed.

\* The components of entities: the owners map never reads them, one is enough.
EcsNames == {"A"}

\* entities.remove that also drops the owners slot at the entity's index.
EcsRemove_clearing(entity) ==
    /\ cls = "ECS"
    /\ LET r == SlotMap_remove(store, entity)
       IN  /\ \A i \in 1..Len(r.store) : r.store[i][1] <= MaxGen
           /\ store' = r.store
           /\ last' = [NoCall EXCEPT !.op = "entities.remove", !.ret = r.ret]
           /\ live' = IF r.ret # null
                      THEN {p \in live : p[1] # entity}
                      ELSE live
           /\ peak' = IF SlotMap_len(r.store) > peak
                      THEN SlotMap_len(r.store)
                      ELSE peak
           /\ balance' = IF r.ret # null THEN balance - 1 ELSE balance
           /\ held' = IF r.ret # null
                      THEN [held EXCEPT ![r.ret] = @ - 1]
                      ELSE held
           /\ sstore' = IF r.ret # null /\ entity[2] < Len(sstore)
                        THEN [sstore EXCEPT ![entity[2] + 1] = nullSlot]
                        ELSE sstore
    /\ UNCHANGED <<cls, its, listVars, issued, secHist>>

\* entities.insert(comp)
EcsInsert(comp) ==
    /\ cls = "ECS"
    /\ LET r == SlotMap_insert(store, comp)
       IN  /\ Len(r.store) <= MaxEcsLen
           /\ r.ret[1] <= MaxGen
           /\ store' = r.store
           /\ last' = [NoCall EXCEPT !.op = "entities.insert", !.key = r.ret]
           /\ issued' = issued \cup {r.ret}
           /\ live' = live \cup {<<r.ret, comp>>}
           /\ peak' = IF SlotMap_len(r.store) > peak
                      THEN SlotMap_len(r.store)
                      ELSE peak
           /\ balance' = balance + 1
           /\ held' = [held EXCEPT ![comp] = @ + 1]
    /\ UNCHANGED <<cls, its, listVars, sstore, secHist>>

\* entities.remove(entity)
EcsRemove(entity) ==
    /\ cls = "ECS"
    /\ LET r == SlotMap_remove(store, entity)
       IN  /\ \A i \in 1..Len(r.store) : r.store[i][1] <= MaxGen
           /\ store' = r.store
           /\ last' = [NoCall EXCEPT !.op = "entities.remove", !.ret = r.ret]
           /\ live' = IF r.ret # null
                      THEN {p \in live : p[1] # entity}
                      ELSE live
           /\ peak' = IF SlotMap_len(r.store) > peak
                      THEN SlotMap_len(r.store)
                      ELSE peak
           /\ balance' = IF r.ret # null THEN balance - 1 ELSE balance
           /\ held' = IF r.ret # null
                      THEN [held EXCEPT ![r.ret] = @ - 1]
                      ELSE held
    /\ UNCHANGED <<cls, its, listVars, sstore, issued, secHist>>

\* entities.iter(), run to completion
EcsIter ==
    /\ cls = "ECS"
    /\ last' = [NoCall EXCEPT !.op = "entities.iter", !.pairs = SlotMap_iter(store)]
    /\ UNCHANGED <<cls, its, listVars, store, sstore, arenaHist, secHist>>

\* owners.insert(entity, comp)
EcsOwnersInsert(entity, comp) ==
    /\ cls = "ECS"
    /\ sstore' = SecondaryMap_insert(sstore, entity, comp)
    /\ last' = [NoCall EXCEPT !.op = "owners.insert"]
    /\ assoc' = {p \in assoc : p[1][2] # entity[2]} \cup {<<entity, comp>>}
    /\ tagged' = tagged \cup {entity}
    /\ UNCHANGED <<cls, its, listVars, store, arenaHist>>

\* owners.get(entity)
EcsOwnersGet(entity) ==
    /\ cls = "ECS"
    /\ last' = [NoCall EXCEPT !.op = "owners.get",
                              !.ret = SecondaryMap_get(sstore, entity)]
    /\ UNCHANGED <<cls, its, listVars, store, sstore, arenaHist, secHist>>

\* owners.remove(entity)
EcsOwnersRemove(entity) ==
    /\ cls = "ECS"
    /\ LET r == SecondaryMap_remove(sstore, entity)
       IN  /\ sstore' = r.store
           /\ last' = [NoCall EXCEPT !.op = "owners.remove", !.ret = r.ret]
           /\ assoc' = IF r.ret # null
                       THEN {p \in assoc : p[1] # entity}
                       ELSE assoc
    /\ UNCHANGED <<cls, its, listVars, store, arenaHist, tagged>>

EcsInit ==
    /\ cls = "ECS"
    /\ store = <<>>
    /\ sstore = <<>>
    /\ last = NoCall
    /\ issued = {}
    /\ live = {}
    /\ peak = 0
    /\ balance = 0
    /\ held = [v \in Values |-> 0]
    /\ assoc = {}
    /\ tagged = {}
    /\ its = [k \in Traversals |-> [pc |-> "none", idx |-> 0]]
    /\ head = NoEntity
    /\ tail = NoEntity
    /\ ref = <<>>

EcsNext ==
    \/ \E comp \in EcsNames : EcsInsert(comp)
    \/ \E entity \in issued : EcsRemove(entity)
    \/ EcsIter
    \/ \E entity \in issued, comp \in Values : EcsOwnersInsert(entity, comp)
    \/ \E entity \in issued : EcsOwnersGet(entity)
    \/ \E entity \in issued : EcsOwnersRemove(entity)

SpecECS == EcsInit /\ [][EcsNext]_vars

\* A step of the entities SlotMap leaves the owners store as it is.
C12_ArenaFrame ==
    (cls = "ECS" /\ last'.op \in {"entities.insert", "entities.remove",
                                   "entities.iter"}) => sstore' = sstore

\* Every association of the history is what owners.get returns.
C12_AssocKept ==
    cls = "ECS" =>
        \A p \in assoc : SecondaryMap_get(sstore, p[1]) = p[2]

\* C12. Secondary independence: no SlotMap operation changes the state of a
\* SecondaryMap; a value w associated with e1 by SecondaryMap.insert(e1, w)
\* is still what SecondaryMap.get(e1) returns after the arena has removed e1
\* and reissued its index, until a SecondaryMap.insert at that index or a
\* SecondaryMap.remove of it.
C12_SecondaryIndependence == [](C12_AssocKept) /\ [][C12_ArenaFrame]_vars

\* owners.get has just returned the value of an entity that entities has
\* removed and whose index it has reissued to a live entity.
C12_Witness ==
    /\ cls = "ECS"
    /\ last.op = "owners.get"
    /\ \E p \in assoc :
          /\ p[1] \in issued \ LiveEntities
          /\ last.ret = p[2]
          /\ \E e2 \in LiveEntities : e2[2] = p[1][2] /\ e2[1] > p[1][1]

\* C13. The component of a deleted entity is not accessible to a new one:
\* for an entity that entities issued (e2), and that was never given to
\* SecondaryMap.insert, SecondaryMap.get and SecondaryMap.remove are absent
\* and remove leaves the store, the association of the index's earlier
\* entity e1 included, as it is.
C13_NotInherited ==
    cls = "ECS" =>
        \A e2 \in issued \ tagged :
            /\ SecondaryMap_get(sstore, e2) = null
            /\ SecondaryMap_remove(sstore, e2) = [store |-> sstore, ret |-> null]

\* owners.remove of a live entity has just returned nothing, while the owners
\* slot at its index holds the value of the removed entity that had the index
\* before it.
C13_Witness ==
    /\ cls = "ECS"
    /\ last.op = "owners.remove"
    /\ last.ret = null
    /\ \E p \in assoc, e2 \in LiveEntities \ tagged :
          /\ p[1] \in tagged \ LiveEntities
          /\ e2[2] = p[1][2]
          /\ e2[1] > p[1][1]
          /\ At(sstore, e2[2]) = <<p[1][1], p[2]>>

\* The pairs of a sequence of yields, as a set.
C14_Yielded(pairs) == {pairs[i] : i \in 1..Len(pairs)}

\* What a traversal of the secondary store s is to yield, as a set: for each
\* slot that is neither a hole nor emptied, its generation, index and value.
C14_NonEmpty(s) ==
    {<<  <<s[k][1], k - 1>>, s[k][2]  >> :
        k \in {i \in 1..Len(s) : s[i] # undefined /\ s[i] # nullSlot}}

\* C14. SecondaryMap.iter(), run to completion with no mutation in between,
\* yields in strictly ascending index order exactly one pair ((stored
\* generation, index), value) per non-empty slot, which is per index the
\* association of the most recent insert at that index that no remove has
\* returned since (the history assoc); SecondaryMap.get of every yielded
\* entity is the yielded value, and no index is yielded twice. What an iter
\* call returned is that traversal.
C14_SecondaryIter ==
    cls = "SecondaryMap" =>
        LET pairs == SecondaryMap_iter(sstore)
        IN  /\ \A i, j \in 1..Len(pairs) : i < j => pairs[i][1][2] < pairs[j][1][2]
            /\ C14_Yielded(pairs) = C14_NonEmpty(sstore)
            /\ C14_Yielded(pairs) = assoc
            /\ \A i \in 1..Len(pairs) :
                   SecondaryMap_get(sstore, pairs[i][1]) = pairs[i][2]
            /\ last.op = "iter" => last.pairs = pairs

\* An iter call has just yielded two pairs or more from a store that has a
\* hole, an emptied slot and a slot of generation 1.
C14_Witness ==
    /\ cls = "SecondaryMap"
    /\ last.op = "iter"
    /\ Len(last.pairs) >= 2
    /\ \E i \in 1..Len(last.pairs) : last.pairs[i][1][1] = 1
    /\ \E i \in 1..Len(sstore) : sstore[i] = nullSlot

\* The store never gets shorter, and gets longer, by one slot, only in an
\* insert made while every slot it had was occupied.
C15_Growth ==
    cls = "SlotMap" =>
        /\ Len(store') >= Len(store)
        /\ Len(store') > Len(store) =>
             /\ Len(store') = Len(store) + 1
             /\ last'.op = "insert"
             /\ \A i \in 1..Len(store) : store[i][1] % 2 = 0

\* The length of the store is the largest number of occupied slots so far.
C15_LengthIsPeak == cls = "SlotMap" => Len(store) = peak

\* C15. Slot retention: over any sequence of SlotMap operations the length
\* of the store never decreases, increases (by exactly one) only in an
\* insert performed while every existing slot is occupied, and so equals, in
\* every reachable state, the largest value len() has ever had.
C15_SlotRetention == [](C15_LengthIsPeak) /\ [][C15_Growth]_vars

\* An insert has just reused a vacant slot of a store of two slots or more
\* while another slot stays vacant: fewer slots are occupied than the store
\* has, and the store did not grow.
C15_Witness ==
    /\ cls = "SlotMap"
    /\ last.op = "insert"
    /\ last.key[1] > 0
    /\ Len(store) >= 2
    /\ SlotMap_len(store) < Len(store)

\* The entities insert has returned that get returns a value for.
C16_Valid == {e \in issued : SlotMap_get(store, e) # null}

\* Of the issued entities of one index at most one is valid; it has the
\* highest generation issued for the index, which is even and is the one the
\* slot stores.
C16_OneValid ==
    cls = "SlotMap" =>
        \A e \in C16_Valid :
            /\ e[1] % 2 = 0
            /\ store[e[2] + 1][1] = e[1]
            /\ \A f \in issued : f[2] = e[2] => f[1] <= e[1]
            /\ \A f \in C16_Valid : f[2] = e[2] => f = e

\* The generation a slot stores never decreases, and the entity an insert
\* returns has a higher generation than every entity issued before for its
\* index, so that the highest is the most recently issued.
C16_Monotone ==
    cls = "SlotMap" =>
        /\ store' # store =>
             \A i \in 1..Len(store) : store'[i][1] >= store[i][1]
        /\ last'.op = "insert" =>
             \A f \in issued : f[2] = last'.key[2] => f[1] < last'.key[1]

\* C16. At most one live key per index: among all entities ever returned by
\* insert, at most one per index is valid (get returns a value); it is the
\* one most recently issued for that index, its generation is even and
\* equals the slot's stored generation; the generation a slot stores never
\* decreases.
C16_OneLiveKey == [](C16_OneValid) /\ [][C16_Monotone]_vars

\* get has just returned a value while insert has issued two entities for
\* one index, the later of which is valid.
C16_Witness ==
    /\ cls = "SlotMap"
    /\ last.op = "get"
    /\ last.ret # null
    /\ \E e \in C16_Valid, f \in issued \ C16_Valid : f[2] = e[2] /\ f[1] < e[1]

\* C17. A vacant slot holds no current value: for every (generation, index)
\* whose index addresses a vacant slot, one of odd generation, SlotMap.get
\* and SlotMap.remove return absent, so that a removed value is never read
\* again, nor brought back into iter and len, except through insert.
C17_VacantAbsent ==
    cls = "SlotMap" =>
        \A entity \in Entities :
            (entity[2] < Len(store) /\ store[entity[2] + 1][1] % 2 = 1) =>
                /\ SlotMap_get(store, entity) = null
                /\ SlotMap_remove(store, entity).ret = null
                /\ SlotMap_iter(SlotMap_remove(store, entity).store)
                     = SlotMap_iter(store)

\* ---------------------------------------------------- SlotMap, own keys
\* A SlotMap whose caller passes to remove and get only entities that insert
\* on this SlotMap has returned.

KeysInit == Init /\ cls = "SlotMap"

KeysNext ==
    \/ \E comp \in Values : CallInsert(comp)
    \/ \E entity \in issued : CallGet(entity)
    \/ \E entity \in issued : CallRemove(entity)
    \/ CallIter
    \/ CallLen
    \/ CallIsEmpty

SpecKeys == KeysInit /\ [][KeysNext]_vars

\* How many of the yielded pairs carry the value v.
C18_Count(pairs, v) == Cardinality({i \in 1..Len(pairs) : pairs[i][2] = v})

\* C18. Live count tracks history: when remove is only ever called with
\* entities that insert on the same SlotMap returned, len() is the number of
\* insert calls less the number of remove calls that returned a value, and
\* the multiset of the values iter() yields is the multiset of the values
\* inserted less that of the values remove returned. What a len or iter
\* call returned agrees with it.
C18_LiveCount ==
    cls = "SlotMap" =>
        /\ SlotMap_len(store) = balance
        /\ \A v \in Values : C18_Count(SlotMap_iter(store), v) = held[v]
        /\ last.op = "len" => last.n = balance
        /\ last.op = "iter" =>
             \A v \in Values : C18_Count(last.pairs, v) = held[v]

\* len has just returned the balance of a history with a remove that
\* returned a value, a later insert that reused its slot, and both values
\* held.
C18_Witness ==
    /\ cls = "SlotMap"
    /\ last.op = "len"
    /\ last.n = balance
    /\ Cardinality(issued) > balance
    /\ \E e \in LiveEntities : e[1] = 2
    /\ \A v \in Values : held[v] >= 1

\* ------------------------------------------- traversals under mutation
\* A SlotMap whose caller holds generators of iter(), takes their yields one
\* at a time and calls insert and remove, with its own keys, in between.

\* const it = m.iter(): a generator, none of whose body has run.
IterCreate(k) ==
    /\ cls = "SlotMap"
    /\ its' = [its EXCEPT ![k] = [pc |-> "start", idx |-> 0]]
    /\ last' = [NoCall EXCEPT !.op = "create"]
    /\ UNCHANGED <<cls, listVars, store, sstore, arenaHist, secHist>>

\* it.next(): the generator runs to its next yield, or to its end.
IterNext(k) ==
    /\ cls = "SlotMap"
    /\ its[k].pc # "none"
    /\ LET r == IF its[k].pc = "start" THEN SlotMap_iter_resume(store, 0)
                ELSE IF its[k].pc = "yield"
                     THEN SlotMap_iter_resume(store, its[k].idx + 1)
                     ELSE [pc |-> "done", idx |-> 0, pairs |-> <<>>]
       IN  /\ its' = [its EXCEPT ![k] = [pc |-> r.pc, idx |-> r.idx]]
           /\ last' = [NoCall EXCEPT !.op = "next", !.pairs = r.pairs]
    /\ UNCHANGED <<cls, listVars, store, sstore, arenaHist, secHist>>

\* insert between two yields, in a store kept to MaxIterLen slots.
IterInsert(comp) ==
    /\ Len(SlotMap_insert(store, comp).store) <= MaxIterLen
    /\ CallInsert(comp)

IterInit == Init /\ cls = "SlotMap"

IterSpecNext ==
    \/ \E comp \in Values : IterInsert(comp)
    \/ \E entity \in issued : CallRemove(entity)
    \/ \E k \in Traversals : IterCreate(k)
    \/ \E k \in Traversals : IterNext(k)

SpecIter == IterInit /\ [][IterSpecNext]_vars

\* The pair a next call has just yielded is a slot that is occupied with
\* that generation and that value.
C19_YieldOccupied ==
    (cls = "SlotMap" /\ last.op = "next" /\ last.pairs # <<>>) =>
        LET p == last.pairs[1]
        IN  /\ p[1][2] < Len(store)
            /\ p[1][1] % 2 = 0
            /\ store[p[1][2] + 1] = <<p[1][1], p[2]>>

\* A next call of traversal k yields at the index k stops at, which is above
\* the index of its previous yield, and leaves the store and the other
\* traversal as they are; what the other traversal is to yield next is
\* the same before and after.
C19_NextStep ==
    (cls = "SlotMap" /\ last'.op = "next") =>
        \A k \in Traversals :
            IterNext(k) =>
                /\ store' = store
                /\ \A j \in Traversals \ {k} :
                       /\ its'[j] = its[j]
                       /\ SlotMap_iter_resume(store', its'[j].idx + 1)
                            = SlotMap_iter_resume(store, its[j].idx + 1)
                /\ (its[k].pc = "yield" /\ its'[k].pc = "yield") =>
                       its'[k].idx > its[k].idx
                /\ its'[k].pc = "yield" <=> last'.pairs # <<>>
                /\ its'[k].pc = "yield" => last'.pairs[1][1][2] = its'[k].idx
                /\ its[k].pc = "done" => its'[k].pc = "done"

\* insert and remove leave the position of every traversal as it is.
C19_MutationStep ==
    (cls = "SlotMap" /\ last'.op \in {"insert", "remove"}) => its' = its

\* C19. Lazy traversal interleaved with mutation: when the consumer calls
\* insert or remove on the same SlotMap between successive yields of one
\* iter() traversal, the traversal still yields indices in strictly
\* ascending order with no index twice, every yielded pair is a slot that is
\* occupied with that generation and value at the moment it is yielded, and
\* a second traversal in progress at the same time is unaffected by how far
\* the first has advanced.
C19_LazyTraversal ==
    [](C19_YieldOccupied) /\ [][C19_NextStep /\ C19_MutationStep]_vars

\* Traversal 2 has yielded slot 0, which a remove has vacated since, and
\* traversal 1 has just passed over it and yielded slot 1.
C19_Witness ==
    /\ cls = "SlotMap"
    /\ last.op = "next"
    /\ last.pairs # <<>>
    /\ its[1] = [pc |-> "yield", idx |-> 1]
    /\ its[2] = [pc |-> "yield", idx |-> 0]
    /\ store[1][1] % 2 = 1

\* ----------------------------------------------------------------- List
\* The doubly-linked list of the example: its nodes are the components of a
\* SlotMap, `map`, and its links, head and tail are entities of it or null.

\* The null of a ListKey.
nullKey == NoEntity

\* The null of a `Node | null`.
nullNode == [value |-> null, prev |-> nullKey, next |-> nullKey]

\* this.map.get(key) of the SlotMap<Node>: the node, or null.
List_map_get(s, key) ==
    LET slot == At(s, key[2])
    IN  IF Truthy(slot) /\ key[1] = slot[1] THEN slot[2] ELSE nullNode

\* this.map.remove(key) of the SlotMap<Node>: the node, or null.
List_map_remove(s, key) ==
    LET slot == At(s, key[2])
    IN  IF Truthy(slot) /\ key[1] = slot[1]
        THEN [store |-> [s EXCEPT ![key[2] + 1] = <<slot[1] + 1, slot[2]>>],
              ret |-> slot[2]]
        ELSE [store |-> s, ret |-> nullNode]

\* node.prev = k, for the node that key resolves to.
List_set_prev(s, key, k) ==
    [s EXCEPT ![key[2] + 1] = <<@[1], [@[2] EXCEPT !.prev = k]>>]

\* node.next = k, for the node that key resolves to.
List_set_next(s, key, k) ==
    [s EXCEPT ![key[2] + 1] = <<@[1], [@[2] EXCEPT !.next = k]>>]

\* List.push_head: store s, head h and tail t before; the same and the
\* returned key after.
List_push_head(s, h, t, value) ==
    LET r == SlotMap_insert(s, [value |-> value, prev |-> nullKey, next |-> h])
        k == r.ret
        oldHead == IF h = nullKey THEN nullNode ELSE List_map_get(r.store, h)
    IN  IF oldHead # nullNode
        THEN [store |-> List_set_prev(r.store, h, k), head |-> k, tail |-> t,
              ret |-> k]
        ELSE [store |-> r.store, head |-> k, tail |-> k, ret |-> k]

\* push_tail that does not link the old tail to the new node.
List_push_tail_unlinked(s, h, t, value) ==
    LET r == SlotMap_insert(s, [value |-> value, prev |-> t, next |-> nullKey])
        k == r.ret
        oldTail == IF t = nullKey THEN nullNode ELSE List_map_get(r.store, t)
    IN  IF oldTail # nullNode
        THEN [store |-> r.store, head |-> h, tail |-> k, ret |-> k]
        ELSE [store |-> r.store, head |-> k, tail |-> k, ret |-> k]

\* List.push_tail
List_push_tail(s, h, t, value) ==
    LET r == SlotMap_insert(s, [value |-> value, prev |-> t, next |-> nullKey])
        k == r.ret
        oldTail == IF t = nullKey THEN nullNode ELSE List_map_get(r.store, t)
    IN  IF oldTail # nullNode
        THEN [store |-> List_set_next(r.store, t, k), head |-> h, tail |-> k,
              ret |-> k]
        ELSE [store |-> r.store, head |-> k, tail |-> k, ret |-> k]

\* List.pop_head
List_pop_head(s, h, t) ==
    IF h = nullKey
    THEN [store |-> s, head |-> h, tail |-> t, ret |-> null]
    ELSE LET r == List_map_remove(s, h)
         IN  IF r.ret # nullNode
             THEN [store |-> r.store, head |-> r.ret.next, tail |-> t,
                   ret |-> r.ret.value]
             ELSE [store |-> s, head |-> h, tail |-> t, ret |-> null]

\* List.pop_tail
List_pop_tail(s, h, t) ==
    IF t = nullKey
    THEN [store |-> s, head |-> h, tail |-> t, ret |-> null]
    ELSE LET r == List_map_remove(s, t)
         IN  IF r.ret # nullNode
             THEN [store |-> r.store, head |-> h, tail |-> r.ret.prev,
                   ret |-> r.ret.value]
             ELSE [store |-> s, head |-> h, tail |-> t, ret |-> null]

\* List.remove
List_remove(s, h, t, key) ==
    IF key = nullKey
    THEN [store |-> s, head |-> h, tail |-> t, ret |-> null]
    ELSE LET r == List_map_remove(s, key)
             node == r.ret
             prevNode == IF node.prev # nullKey
                         THEN List_map_get(r.store, node.prev)
                         ELSE nullNode
             s1 == IF prevNode # nullNode
                   THEN List_set_next(r.store, node.prev, node.next)
                   ELSE r.store
             h1 == IF prevNode # nullNode THEN h ELSE node.next
             nextNode == IF node.next # nullKey
                         THEN List_map_get(s1, node.next)
                         ELSE nullNode
             s2 == IF nextNode # nullNode
                   THEN List_set_prev(s1, node.next, node.prev)
                   ELSE s1
             t1 == IF nextNode # nullNode THEN t ELSE node.prev
         IN  IF node # nullNode
             THEN [store |-> s2, head |-> h1, tail |-> t1, ret |-> node.value]
             ELSE [store |-> s, head |-> h, tail |-> t, ret |-> null]

\* List.get
List_get(s, key) ==
    LET node == IF key # nullKey THEN List_map_get(s, key) ELSE nullNode
    IN  IF node # nullNode THEN node.value ELSE null

\* List.len
List_len(s) == SlotMap_len(s)

\* ------------------------------------------------------------ List calls

\* The value that the reference sequence holds under key, or null.
RefValue(key) ==
    IF \E i \in 1..Len(ref) : ref[i][1] = key
    THEN LET i == CHOOSE i \in 1..Len(ref) : ref[i][1] = key IN ref[i][2]
    ELSE null

\* The reference sequence without its element of the given key.
RefWithout(key) == SelectSeq(ref, LAMBDA p : p[1] # key)

CallPushHead(value) ==
    /\ cls = "List"
    /\ LET r == List_push_head(store, head, tail, value)
       IN  /\ Cardinality(issued) < MaxListKeys
           /\ store' = r.store
           /\ head' = r.head
           /\ tail' = r.tail
           /\ last' = [NoCall EXCEPT !.op = "push_head", !.key = r.ret]
           /\ issued' = issued \cup {r.ret}
           /\ ref' = << <<r.ret, value>> >> \o ref
    /\ UNCHANGED <<cls, its, sstore, secHist, live, peak, balance, held>>

CallPushTail(value) ==
    /\ cls = "List"
    /\ LET r == List_push_tail(store, head, tail, value)
       IN  /\ Cardinality(issued) < MaxListKeys
           /\ store' = r.store
           /\ head' = r.head
           /\ tail' = r.tail
           /\ last' = [NoCall EXCEPT !.op = "push_tail", !.key = r.ret]
           /\ issued' = issued \cup {r.ret}
           /\ ref' = ref \o << <<r.ret, value>> >>
    /\ UNCHANGED <<cls, its, sstore, secHist, live, peak, balance, held>>

CallPopHead ==
    /\ cls = "List"
    /\ LET r == List_pop_head(store, head, tail)
       IN  /\ store' = r.store
           /\ head' = r.head
           /\ tail' = r.tail
           /\ last' = [NoCall EXCEPT !.op = "pop_head", !.ret = r.ret]
    /\ ref' = IF ref = <<>> THEN ref ELSE Tail(ref)
    /\ UNCHANGED <<cls, its, sstore, secHist, arenaHist>>

CallPopTail ==
    /\ cls = "List"
    /\ LET r == List_pop_tail(store, head, tail)
       IN  /\ store' = r.store
           /\ head' = r.head
           /\ tail' = r.tail
           /\ last' = [NoCall EXCEPT !.op = "pop_tail", !.ret = r.ret]
    /\ ref' = IF ref = <<>> THEN ref ELSE SubSeq(ref, 1, Len(ref) - 1)
    /\ UNCHANGED <<cls, its, sstore, secHist, arenaHist>>

CallListRemove(key) ==
    /\ cls = "List"
    /\ LET r == List_remove(store, head, tail, key)
       IN  /\ store' = r.store
           /\ head' = r.head
           /\ tail' = r.tail
           /\ last' = [NoCall EXCEPT !.op = "remove", !.ret = r.ret]
    /\ ref' = RefWithout(key)
    /\ UNCHANGED <<cls, its, sstore, secHist, arenaHist>>

CallListGet(key) ==
    /\ cls = "List"
    /\ last' = [NoCall EXCEPT !.op = "get", !.ret = List_get(store, key)]
    /\ UNCHANGED <<cls, its, listVars, store, sstore, secHist, arenaHist>>

CallListLen ==
    /\ cls = "List"
    /\ last' = [NoCall EXCEPT !.op = "len", !.n = List_len(store)]
    /\ UNCHANGED <<cls, its, listVars, store, sstore, secHist, arenaHist>>

ListInit ==
    /\ cls = "List"
    /\ store = <<>>
    /\ head = nullKey
    /\ tail = nullKey
    /\ ref = <<>>
    /\ last = NoCall
    /\ issued = {}
    /\ live = {}
    /\ peak = 0
    /\ balance = 0
    /\ held = [v \in Values |-> 0]
    /\ sstore = <<>>
    /\ assoc = {}
    /\ tagged = {}
    /\ its = [k \in Traversals |-> [pc |-> "none", idx |-> 0]]

\* The keys a caller of the List holds: those its pushes returned, and null.
ListKeys == issued \cup {nullKey}

ListNext ==
    \/ \E value \in Values : CallPushHead(value)
    \/ \E value \in Values : CallPushTail(value)
    \/ CallPopHead
    \/ CallPopTail
    \/ \E key \in ListKeys : CallListRemove(key)
    \/ \E key \in ListKeys : CallListGet(key)
    \/ CallListLen

SpecList == ListInit /\ [][ListNext]_vars

\* The List and the reference sequence agree in every state: on the length,
\* on what get returns for every key, and on the first and the last element
\* when there is one.
C20_Agree ==
    cls = "List" =>
        /\ List_len(store) = Len(ref)
        /\ \A key \in ListKeys : List_get(store, key) = RefValue(key)
        /\ ref # <<>> => head = ref[1][1] /\ tail = ref[Len(ref)][1]
        /\ last.op = "len" => last.n = Len(ref)

\* What a call returns is what the reference sequence gives for it.
C20_Returns ==
    cls = "List" =>
        /\ last'.op = "pop_head" =>
             last'.ret = IF ref = <<>> THEN null ELSE ref[1][2]
        /\ last'.op = "pop_tail" =>
             last'.ret = IF ref = <<>> THEN null ELSE ref[Len(ref)][2]
        /\ last'.op = "remove" =>
             \A key \in ListKeys : CallListRemove(key) => last'.ret = RefValue(key)
        /\ last'.op = "get" =>
             \A key \in ListKeys : CallListGet(key) => last'.ret = RefValue(key)

\* C20. The doubly-linked List refines a reference double-ended sequence:
\* after any sequence of push_head, push_tail, pop_head, pop_tail,
\* remove(key) and get(key), pop_head and pop_tail return the first and
\* last element of the reference sequence (null when it is empty, after
\* which the list is still usable), remove(k) and get(k) return the value
\* pushed with key k exactly while that element is in the sequence and null
\* otherwise (also after its slot was reused), len() is the length of the
\* sequence, and head and tail denote its first and last element whenever
\* it is non-empty.
C20_ListRefines == [](C20_Agree) /\ [][C20_Returns]_vars

\* get of a stale key has just returned null while the slot of that key
\* holds a later element, and the list has two elements or more.
C20_Witness ==
    /\ cls = "List"
    /\ last.op = "get"
    /\ last.ret = null
    /\ Len(ref) >= 2
    /\ \E i \in 1..Len(ref), key \in issued :
          /\ key[2] = ref[i][1][2]
          /\ key[1] < ref[i][1][1]

====
